---- MODULE Spec2Model ----
(***************************************************************************)
(* Model of sky/clouds/service_catalog/aws_catalog.py: the import-time     *)
(* zone normalisation of the AWS catalog (_apply_az_mapping) and the       *)
(* queries served from the normalised catalog.                             *)
(*                                                                         *)
(* A DataFrame is a sequence of records (one per row, in row order).       *)
(* A nullable cell or an Optional argument is <<>> (None / NaN) or <<v>>.  *)
(* Region names are sequences of characters, because the code inspects     *)
(* their prefix (str.startswith).                                          *)
(***************************************************************************)
EXTENDS Integers, Sequences, FiniteSets, TLC

\* ------------------------------------------------------------- bounds --
\* at most this many rows of MasterCatalog in the raw catalog (vms.csv)
MaxRows == 3
\* at most this many entries of MasterAzMappings in the zone mapping table
MaxMappings == 3
\* number of process startups (imports of the module) sharing one store
NumProcs == 2

\* ------------------------------------------------------ Optional / NaN --
None == <<>>
Some(v) == <<v>>
isna(cell) == cell = None

\* a float64 cell holding the number n, in tenths (4.0 is 40)
Float(n) == n * 10
\* Python int(x) on a float64 cell: truncation
int(x) == x \div 10

\* ------------------------------------------------------------- strings --
us_east_1 == <<"u", "s", "-", "e", "a", "s", "t", "-", "1">>
us_west_2 == <<"u", "s", "-", "w", "e", "s", "t", "-", "2">>
eu_west_1 == <<"e", "u", "-", "w", "e", "s", "t", "-", "1">>

\* str.startswith
startswith(name, prefix) ==
    /\ Len(name) >= Len(prefix)
    /\ SubSeq(name, 1, Len(prefix)) = prefix

\* ---------------------------------------------------------- input data --
\* Rows of aws/vms.csv as common.read_catalog returns them: AvailabilityZone
\* holds the raw zone id.  Prices are in cents.  AcceleratorCount is a
\* float64 column holding whole numbers or NaN.
Row(it, region, az, vcpus, mem, accName, accCount, price, spot) ==
    [InstanceType |-> it, Region |-> region, AvailabilityZone |-> az,
     vCPUs |-> vcpus, MemoryGiB |-> mem,
     AcceleratorName |-> accName, AcceleratorCount |-> accCount,
     Price |-> price, SpotPrice |-> spot]

MasterCatalog ==
    << Row("p3.2xlarge", us_east_1, "use1-az1", 8, 61,
           Some("V100"), Some(Float(1)), 306, Some(92)),
       Row("p3.8xlarge", us_east_1, "use1-az2", 32, 244,
           Some("V100"), Some(Float(4)), 1224, None),
       Row("p3.8xlarge", eu_west_1, "euw1-az1", 32, 244,
           Some("V100"), Some(Float(4)), 1100, Some(400)),
       Row("p3.8xlarge", us_west_2, "usw2-az1", 32, 244,
           Some("V100"), Some(Float(4)), 1000, Some(390)),
       Row("m5.large", eu_west_1, "euw1-az1", 2, 8,
           None, None, 10, None),
       Row("inf1.xlarge", us_west_2, "usw2-az1", 4, 8,
           Some("Inferentia"), None, 23, Some(7)) >>

\* Rows of aws/az_mappings.csv: raw zone id -> zone name of this account.
AzMapping(id, name) == [AvailabilityZone |-> id, AvailabilityZoneName |-> name]

MasterAzMappings ==
    << AzMapping("use1-az1", "us-east-1a"),
       AzMapping("use1-az2", "us-east-1b"),
       AzMapping("euw1-az1", "eu-west-1a"),
       AzMapping("usw2-az1", "us-west-2a"),
       AzMapping("use1-az1", "us-east-1c") >>

ZoneIds == {"use1-az1", "use1-az2", "euw1-az1", "usw2-az1"}
ZoneNames == {"us-east-1a", "us-east-1b", "us-east-1c", "eu-west-1a", "us-west-2a"}

RECURSIVE Pick(_, _, _)
\* the elements of s at the indices in I, from index i on, in order
Pick(s, I, i) ==
    IF i > Len(s) THEN <<>>
    ELSE (IF i \in I THEN <<s[i]>> ELSE <<>>) \o Pick(s, I, i + 1)

\* the tables made of at most max rows of master, in master's order
Tables(master, max) ==
    { Pick(master, I, 1) :
        I \in { J \in SUBSET (1 .. Len(master)) : Cardinality(J) <= max } }

Procs == 1 .. NumProcs

InstanceTypes == {"p3.2xlarge", "p3.8xlarge", "m5.large", "inf1.xlarge"}

\* resources.ResourceFilter values the callers pass
Passthrough ==
    { [spot_recovery |-> None, disk_size |-> 256, image_id |-> None],
      [spot_recovery |-> Some("FAILOVER"), disk_size |-> 512,
       image_id |-> Some("ami-0123")] }

Accelerators ==
    { [name |-> "V100", count |-> 1, args |-> None],
      [name |-> "V100", count |-> 4, args |-> None] }

ResourceFilters ==
    { [instance_type |-> it, accelerator |-> acc, region |-> region,
       zone |-> zone, use_spot |-> spot,
       spot_recovery |-> pt.spot_recovery, disk_size |-> pt.disk_size,
       image_id |-> pt.image_id] :
        it \in {None, Some("p3.8xlarge"), Some("t2.nano")},
        acc \in {None} \cup { Some(a) : a \in Accelerators },
        region \in {None, Some(us_east_1)},
        zone \in {None, Some("us-east-1b")},
        spot \in BOOLEAN,
        pt \in Passthrough }

VARIABLES
    raw_df,            \* aws/vms.csv as read_catalog returns it
    aws_az_mappings,   \* what fetch_availability_zone_mappings() returns
    az_mapping_file,   \* aws/az_mappings.csv in the local store, or None
    pc,                \* per process: where its import of the module is
    df,                \* per process: the module global _df
    call,              \* the last query served: process, operation, args, result
    fetched,           \* per process: it called the external fetch
    startedAfterSuccess, \* per process: it started after a successful import
    overlap            \* two imports were in progress at the same time

vars == <<raw_df, aws_az_mappings, az_mapping_file, pc, df, call,
          fetched, startedAfterSuccess, overlap>>

\* ------------------------------------------------------ _apply_az_mapping --
\* pd.read_csv(az_mapping_path) of what to_csv(az_mapping_path) wrote: the
\* table has two populated string columns, which the round trip preserves
read_csv(file) == file[1]
to_csv(az_mappings) == Some(az_mappings)

\* os.path.exists(az_mapping_path)
path_exists(file) == file # None

\* the rows of az_mappings whose key equals the key of row, in table order,
\* each joined to row
JoinRow(row, az_mappings) ==
    LET hits == SelectSeq(az_mappings,
                    LAMBDA m : m.AvailabilityZone = row.AvailabilityZone)
    IN  [i \in 1 .. Len(hits) |->
            [k \in DOMAIN row \cup {"AvailabilityZoneName"} |->
                IF k = "AvailabilityZoneName"
                THEN hits[i].AvailabilityZoneName ELSE row[k]]]

RECURSIVE merge(_, _)
\* df.merge(az_mappings, on=['AvailabilityZone'], how='inner'): one output
\* row per pair of a catalog row and a mapping row with the same key, in
\* the order of the catalog rows
merge(dfv, az_mappings) ==
    IF dfv = <<>> THEN <<>>
    ELSE JoinRow(Head(dfv), az_mappings) \o merge(Tail(dfv), az_mappings)

\* df.drop(columns=['AvailabilityZone']).rename(
\*     columns={'AvailabilityZoneName': 'AvailabilityZone'})
drop_rename(dfv) ==
    [i \in 1 .. Len(dfv) |->
        [k \in DOMAIN dfv[i] \ {"AvailabilityZoneName"} |->
            IF k = "AvailabilityZone"
            THEN dfv[i].AvailabilityZoneName ELSE dfv[i][k]]]

\* a left join keeps the unmatched rows, with NaN in the joined column
JoinRowLeft(row, az_mappings) ==
    IF JoinRow(row, az_mappings) # <<>> THEN JoinRow(row, az_mappings)
    ELSE << [k \in DOMAIN row \cup {"AvailabilityZoneName"} |->
                IF k = "AvailabilityZoneName" THEN "" ELSE row[k]] >>

RECURSIVE merge_left(_, _)
merge_left(dfv, az_mappings) ==
    IF dfv = <<>> THEN <<>>
    ELSE JoinRowLeft(Head(dfv), az_mappings) \o merge_left(Tail(dfv), az_mappings)

\* _apply_az_mapping with how='left' in place of how='inner'
apply_az_mapping_left(dfv, az_mappings) ==
    drop_rename(merge_left(dfv, az_mappings))

RECURSIVE merge_cross(_, _)
merge_cross(dfv, az_mappings) ==
    IF dfv = <<>> THEN <<>>
    ELSE [i \in 1 .. Len(az_mappings) |->
            [k \in DOMAIN Head(dfv) \cup {"AvailabilityZoneName"} |->
                IF k = "AvailabilityZoneName"
                THEN az_mappings[i].AvailabilityZoneName ELSE Head(dfv)[k]]]
         \o merge_cross(Tail(dfv), az_mappings)

\* _apply_az_mapping joining on the region part of the key only: every row
\* is paired with every mapping entry
apply_az_mapping_cross(dfv, az_mappings) ==
    drop_rename(merge_cross(dfv, az_mappings))

\* lines 54-60 of _apply_az_mapping, once az_mappings is at hand
apply_az_mapping(dfv, az_mappings) ==
    drop_rename(merge(dfv, az_mappings))

\* --------------------------------------- common.* (not in this source) --
\* common.filter_spot: a spot query keeps only the rows with a spot price
filter_spot(dfv, use_spot) ==
    IF use_spot THEN SelectSeq(dfv, LAMBDA row : ~isna(row.SpotPrice))
    ELSE dfv

\* the columns of the catalog that hold NaN in some rows, and the float64 one
NullableColumns == {"AcceleratorName", "AcceleratorCount", "SpotPrice"}
FloatColumns == {"AcceleratorCount"}

\* df[k] == v on one cell: NaN equals nothing; an int compares to a float64
\* cell by value
cell_eq(k, cell, v) ==
    IF k \in NullableColumns
    THEN /\ ~isna(cell)
         /\ cell[1] = (IF k \in FloatColumns THEN Float(v) ELSE v)
    ELSE cell = v

RECURSIVE apply_filters(_, _)
\* common.apply_filters: one equality filter per entry whose value is not
\* None; an entry whose value is None is skipped
apply_filters(dfv, filters) ==
    IF filters = <<>> THEN dfv
    ELSE LET k == Head(filters)[1]
             v == Head(filters)[2]
         IN  apply_filters(
                 IF v = None THEN dfv
                 ELSE SelectSeq(dfv, LAMBDA row : cell_eq(k, row[k], v[1])),
                 Tail(filters))

\* the price column a query reads, as a nullable cell
price_cell(row, use_spot) ==
    IF use_spot THEN row.SpotPrice ELSE Some(row.Price)

RECURSIVE sort_values(_, _)
\* df.sort_values(price_str), ascending; rows of equal price keep their order
sort_values(dfv, use_spot) ==
    IF dfv = <<>> THEN <<>>
    ELSE LET n == Len(dfv)
             rest == sort_values(SubSeq(dfv, 1, n - 1), use_spot)
             key(row) == price_cell(row, use_spot)[1]
             before == SelectSeq(rest, LAMBDA r : key(r) <= key(dfv[n]))
             after == SelectSeq(rest, LAMBDA r : key(r) > key(dfv[n]))
         IN  before \o <<dfv[n]>> \o after

RECURSIVE unique(_)
\* Series.unique(): the distinct values in order of first appearance
unique(s) ==
    IF s = <<>> THEN <<>>
    ELSE LET n == Len(s)
             init == unique(SubSeq(s, 1, n - 1))
         IN  IF \E i \in 1 .. n - 1 : s[i] = s[n] THEN init
             ELSE Append(init, s[n])

\* common.get_region_zones: the regions of the rows that have a price for
\* the purchasing option, cheapest first, each with its zones
get_region_zones(dfv, use_spot) ==
    LET priced == SelectSeq(dfv, LAMBDA row : ~isna(price_cell(row, use_spot)))
        sorted == sort_values(priced, use_spot)
        names == unique([i \in 1 .. Len(sorted) |-> sorted[i].Region])
        zones(name) ==
            LET rows == SelectSeq(sorted, LAMBDA row : row.Region = name)
            IN  [i \in 1 .. Len(rows) |-> rows[i].AvailabilityZone]
    IN  [i \in 1 .. Len(names) |-> [name |-> names[i], zones |-> zones(names[i])]]

\* ------------------------------------------------- get_feasible_resources --
\* the loop body with the accelerator test inverted into `and`
VMResources_and(row, resource_filter) ==
    [cloud |-> "AWS",
     region |-> row.Region,
     zone |-> row.AvailabilityZone,
     instance_type |-> row.InstanceType,
     num_vcpus |-> row.vCPUs,
     cpu_memory |-> row.MemoryGiB,
     accelerator |->
        IF isna(row.AcceleratorName) /\ isna(row.AcceleratorCount) THEN None
        ELSE Some([name |-> IF isna(row.AcceleratorName) THEN ""
                            ELSE row.AcceleratorName[1],
                   count |-> IF isna(row.AcceleratorCount) THEN 0
                             ELSE int(row.AcceleratorCount[1]),
                   args |-> None]),
     use_spot |-> resource_filter.use_spot,
     spot_recovery |-> resource_filter.spot_recovery,
     disk_size |-> resource_filter.disk_size,
     image_id |-> resource_filter.image_id]

\* the loop body deriving use_spot from the row and leaving the disk size
\* at its default
VMResources_row(row, resource_filter) ==
    [cloud |-> "AWS",
     region |-> row.Region,
     zone |-> row.AvailabilityZone,
     instance_type |-> row.InstanceType,
     num_vcpus |-> row.vCPUs,
     cpu_memory |-> row.MemoryGiB,
     accelerator |->
        IF isna(row.AcceleratorName) \/ isna(row.AcceleratorCount) THEN None
        ELSE Some([name |-> row.AcceleratorName[1],
                   count |-> int(row.AcceleratorCount[1]), args |-> None]),
     use_spot |-> ~isna(row.SpotPrice),
     spot_recovery |-> resource_filter.spot_recovery,
     disk_size |-> 256,
     image_id |-> resource_filter.image_id]

\* the body of the loop over df.itertuples(): one VMResources per row
VMResources(row, resource_filter) ==
    [cloud |-> "AWS",
     region |-> row.Region,
     zone |-> row.AvailabilityZone,
     instance_type |-> row.InstanceType,
     num_vcpus |-> row.vCPUs,
     cpu_memory |-> row.MemoryGiB,
     accelerator |->
        IF isna(row.AcceleratorName) \/ isna(row.AcceleratorCount) THEN None
        ELSE Some([name |-> row.AcceleratorName[1],
                   count |-> int(row.AcceleratorCount[1]), args |-> None]),
     use_spot |-> resource_filter.use_spot,
     spot_recovery |-> resource_filter.spot_recovery,
     disk_size |-> resource_filter.disk_size,
     image_id |-> resource_filter.image_id]

\* the filters dictionary, in insertion order
Filters(resource_filter) ==
    LET acc == resource_filter.accelerator
        acc_name == IF acc = None THEN None ELSE Some(acc[1].name)
        acc_count == IF acc = None THEN None ELSE Some(acc[1].count)
    IN  << <<"InstanceType", resource_filter.instance_type>>,
           <<"AcceleratorName", acc_name>>,
           <<"AcceleratorCount", acc_count>>,
           <<"Region", resource_filter.region>>,
           <<"AvailabilityZone", resource_filter.zone>> >>

\* get_feasible_resources without the call of filter_spot
get_feasible_resources_nospot(dfv, resource_filter) ==
    LET d == apply_filters(dfv, Filters(resource_filter))
    IN  [i \in 1 .. Len(d) |-> VMResources(d[i], resource_filter)]

\* get_feasible_resources that leaves the accelerator count out of the filters
get_feasible_resources_nocount(dfv, resource_filter) ==
    LET d0 == filter_spot(dfv, resource_filter.use_spot)
        d == apply_filters(d0,
                 SelectSeq(Filters(resource_filter),
                           LAMBDA kv : kv[1] # "AcceleratorCount"))
    IN  [i \in 1 .. Len(d) |-> VMResources(d[i], resource_filter)]

\* get_feasible_resources that skips the rows without an accelerator
\* instead of building them with acc = None
get_feasible_resources_skip(dfv, resource_filter) ==
    LET d0 == filter_spot(dfv, resource_filter.use_spot)
        d1 == apply_filters(d0, Filters(resource_filter))
        d == SelectSeq(d1, LAMBDA row :
                 ~(isna(row.AcceleratorName) \/ isna(row.AcceleratorCount)))
    IN  [i \in 1 .. Len(d) |-> VMResources(d[i], resource_filter)]

get_feasible_resources(dfv, resource_filter) ==
    LET d0 == filter_spot(dfv, resource_filter.use_spot)
        d == apply_filters(d0, Filters(resource_filter))
    IN  [i \in 1 .. Len(d) |-> VMResources(d[i], resource_filter)]

\* ------------------------------------- get_region_zones_for_instance_type --
\* region_list of get_region_zones_for_instance_type
region_list_of(dfv, instance_type, use_spot) ==
    get_region_zones(
        SelectSeq(dfv, LAMBDA row : row.InstanceType = instance_type),
        use_spot)

us_prefix == <<"u", "s", "-">>

RECURSIVE us_first_loop(_, _, _, _)
\* the loop over region_list, appending to one of the two lists
us_first_loop(region_list, i, us_region_list, other_region_list) ==
    IF i > Len(region_list) THEN us_region_list \o other_region_list
    ELSE IF startswith(region_list[i].name, us_prefix)
         THEN us_first_loop(region_list, i + 1,
                            Append(us_region_list, region_list[i]),
                            other_region_list)
         ELSE us_first_loop(region_list, i + 1, us_region_list,
                            Append(other_region_list, region_list[i]))

RECURSIVE us_first_insert(_, _, _, _)
\* the loop inserting each US region at the front of its list
us_first_insert(region_list, i, us_region_list, other_region_list) ==
    IF i > Len(region_list) THEN us_region_list \o other_region_list
    ELSE IF startswith(region_list[i].name, us_prefix)
         THEN us_first_insert(region_list, i + 1,
                              <<region_list[i]>> \o us_region_list,
                              other_region_list)
         ELSE us_first_insert(region_list, i + 1, us_region_list,
                              Append(other_region_list, region_list[i]))

us_first_unstable(region_list) == us_first_insert(region_list, 1, <<>>, <<>>)

\* lines 179-186: [US regions] + [non-US regions]
us_first(region_list) == us_first_loop(region_list, 1, <<>>, <<>>)

\* ------------------------------------------------------ import of module --
InProgress(q) == pc[q] \in {"loaded", "fetching"}

\* lines 25-28: _df = common.read_catalog('aws/vms.csv', ...)
ReadCatalog(p) ==
    /\ pc[p] = "idle"
    /\ df' = [df EXCEPT ![p] = Some(raw_df)]
    /\ pc' = [pc EXCEPT ![p] = "loaded"]
    /\ startedAfterSuccess' =
           [startedAfterSuccess EXCEPT ![p] = \E q \in Procs : pc[q] = "ready"]
    /\ overlap' = (overlap \/ \E q \in Procs \ {p} : InProgress(q))
    /\ UNCHANGED <<raw_df, aws_az_mappings, az_mapping_file, call, fetched>>

\* line 63 with the else branch of _apply_az_mapping (lines 52-60): the local
\* copy exists and is read; the rest of the module is then executed
ApplyAzMappingLocal(p) ==
    /\ pc[p] = "loaded"
    /\ path_exists(az_mapping_file)
    /\ df' = [df EXCEPT ![p] =
                 Some(apply_az_mapping(df[p][1], read_csv(az_mapping_file)))]
    /\ pc' = [pc EXCEPT ![p] = "ready"]
    /\ UNCHANGED <<raw_df, aws_az_mappings, az_mapping_file, call, fetched,
                   startedAfterSuccess, overlap>>

\* _apply_az_mapping that fetches whether or not the local copy exists
BeginFetchAlways(p) ==
    /\ pc[p] = "loaded"
    /\ pc' = [pc EXCEPT ![p] = "fetching"]
    /\ fetched' = [fetched EXCEPT ![p] = "started"]
    /\ UNCHANGED <<raw_df, aws_az_mappings, az_mapping_file, df, call,
                   startedAfterSuccess, overlap>>

\* line 63 with lines 40-49: no local copy, so the fetch is started
BeginFetch(p) ==
    /\ pc[p] = "loaded"
    /\ ~path_exists(az_mapping_file)
    /\ pc' = [pc EXCEPT ![p] = "fetching"]
    /\ fetched' = [fetched EXCEPT ![p] = "started"]
    /\ UNCHANGED <<raw_df, aws_az_mappings, az_mapping_file, df, call,
                   startedAfterSuccess, overlap>>

\* lines 50-51 and 54-60: the fetch returns, its result is written to the
\* local store and joined; the rest of the module is then executed
FetchOk(p) ==
    /\ pc[p] = "fetching"
    /\ az_mapping_file' = to_csv(aws_az_mappings)
    /\ df' = [df EXCEPT ![p] = Some(apply_az_mapping(df[p][1], aws_az_mappings))]
    /\ pc' = [pc EXCEPT ![p] = "ready"]
    /\ fetched' = [fetched EXCEPT ![p] = "ok"]
    /\ UNCHANGED <<raw_df, aws_az_mappings, call, startedAfterSuccess, overlap>>

\* a failed fetch that is swallowed: the import goes on with the raw catalog
FetchFailsFallback(p) ==
    /\ pc[p] = "fetching"
    /\ pc' = [pc EXCEPT ![p] = "ready"]
    /\ fetched' = [fetched EXCEPT ![p] = "failed"]
    /\ UNCHANGED <<raw_df, aws_az_mappings, az_mapping_file, df, call,
                   startedAfterSuccess, overlap>>

\* lines 48-50: ray.init() or the fetch raises; the exception leaves
\* _apply_az_mapping and the module body at line 63, so the import fails and
\* none of the definitions after line 63 is executed
FetchFails(p) ==
    /\ pc[p] = "fetching"
    /\ pc' = [pc EXCEPT ![p] = "failed"]
    /\ fetched' = [fetched EXCEPT ![p] = "failed"]
    /\ UNCHANGED <<raw_df, aws_az_mappings, az_mapping_file, df, call,
                   startedAfterSuccess, overlap>>

\* ----------------------------------------------------------------- queries --
\* Queries are synchronous and read-only: `call` holds the one query whose
\* result the caller has not consumed yet.
NoCall == [proc |-> 0, op |-> "none"]

\* get_feasible_resources(resource_filter), callable once the import is done
GetFeasibleResources(p) ==
    /\ pc[p] = "ready"
    /\ call = NoCall
    /\ \E resource_filter \in ResourceFilters :
           call' = [proc |-> p, op |-> "get_feasible_resources",
                    resource_filter |-> resource_filter,
                    ret |-> get_feasible_resources(df[p][1], resource_filter)]
    /\ UNCHANGED <<raw_df, aws_az_mappings, az_mapping_file, pc, df, fetched,
                   startedAfterSuccess, overlap>>

\* get_region_zones_for_instance_type(instance_type, use_spot)
GetRegionZonesForInstanceType(p) ==
    /\ pc[p] = "ready"
    /\ call = NoCall
    /\ \E instance_type \in InstanceTypes, use_spot \in BOOLEAN :
           LET region_list == region_list_of(df[p][1], instance_type, use_spot)
           IN  call' = [proc |-> p, op |-> "get_region_zones_for_instance_type",
                        instance_type |-> instance_type, use_spot |-> use_spot,
                        region_list |-> region_list,
                        ret |-> us_first(region_list)]
    /\ UNCHANGED <<raw_df, aws_az_mappings, az_mapping_file, pc, df, fetched,
                   startedAfterSuccess, overlap>>

\* the caller takes the result of its query
Return(p) ==
    /\ call.proc = p
    /\ call' = NoCall
    /\ UNCHANGED <<raw_df, aws_az_mappings, az_mapping_file, pc, df, fetched,
                   startedAfterSuccess, overlap>>

\* ------------------------------------------------------- specifications --

InitProcs ==
    /\ pc = [p \in Procs |-> "idle"]
    /\ df = [p \in Procs |-> None]
    /\ call = NoCall
    /\ fetched = [p \in Procs |-> "no"]
    /\ startedAfterSuccess = [p \in Procs |-> FALSE]
    /\ overlap = FALSE

Step(p) ==
    \/ ReadCatalog(p)
    \/ ApplyAzMappingLocal(p)
    \/ BeginFetch(p)
    \/ FetchOk(p)
    \/ FetchFails(p)
    \/ GetFeasibleResources(p)
    \/ GetRegionZonesForInstanceType(p)
    \/ Return(p)

\* One process, every raw catalog and every mapping table within the bounds;
\* the local copy of the mapping is absent or was left by an earlier startup.
Init ==
    /\ raw_df \in Tables(MasterCatalog, MaxRows)
    /\ aws_az_mappings \in Tables(MasterAzMappings, MaxMappings)
    /\ az_mapping_file \in {None, to_csv(aws_az_mappings)}
    /\ InitProcs

Next == Step(1)

Spec == Init /\ [][Next]_vars

\* NumProcs startups sharing the local store, their steps interleaved, on
\* one catalog and one mapping table.
InitStartups ==
    /\ raw_df = SubSeq(MasterCatalog, 1, MaxRows)
    /\ aws_az_mappings = SubSeq(MasterAzMappings, 1, MaxMappings)
    /\ az_mapping_file = None
    /\ InitProcs

NextStartups == \E p \in Procs : Step(p)

SpecStartups == InitStartups /\ [][NextStartups]_vars

\* ======================================================================
\* Properties
\* ======================================================================
IsFeasibleCall == call.op = "get_feasible_resources"
IsRegionCall == call.op = "get_region_zones_for_instance_type"

\* the normalised catalog the served query read
Catalog == df[call.proc][1]

\* the zone ids that have an entry in the mapping table
MappedIds(az_mappings) ==
    { az_mappings[i].AvailabilityZone : i \in DOMAIN az_mappings }

\* the entries of the mapping table for one zone id
EntriesFor(az_mappings, id) ==
    { i \in DOMAIN az_mappings : az_mappings[i].AvailabilityZone = id }

\* row of the normalised catalog comes from raw row: all columns but the zone
\* agree (the rows of MasterCatalog differ pairwise outside the zone column)
ComesFrom(row, raw) ==
    \A k \in DOMAIN raw \ {"AvailabilityZone"} : row[k] = raw[k]

RowsFrom(cat, raw) == { j \in DOMAIN cat : ComesFrom(cat[j], raw) }

\* the filter selects the row, purchasing option aside
Matches(row, f) ==
    /\ f.instance_type # None => row.InstanceType = f.instance_type[1]
    /\ f.accelerator # None =>
          /\ row.AcceleratorName = Some(f.accelerator[1].name)
          /\ row.AcceleratorCount = Some(10 * f.accelerator[1].count)
    /\ f.region # None => row.Region = f.region[1]
    /\ f.zone # None => row.AvailabilityZone = f.zone[1]

HasSpotPrice(row) == row.SpotPrice # None

\* the rows an offer is expected for, in catalog order
Expected(cat, f) ==
    SelectSeq(cat, LAMBDA row :
        Matches(row, f) /\ (f.use_spot => HasSpotPrice(row)))

\* the offer carries the location and size of the row
OfferOfRow(o, row) ==
    /\ o.region = row.Region
    /\ o.zone = row.AvailabilityZone
    /\ o.instance_type = row.InstanceType
    /\ o.num_vcpus = row.vCPUs
    /\ o.cpu_memory = row.MemoryGiB

AllUnset(f) ==
    /\ f.instance_type = None
    /\ f.accelerator = None
    /\ f.region = None
    /\ f.zone = None

\* C1: once the import is done, no row of the normalised catalog comes from
\* a raw row whose zone id has no entry in the mapping table, every row of
\* the normalised catalog carries a zone name of a mapping entry for the
\* zone id of a raw row it comes from (never a zone id, never blank), and
\* every offer of get_feasible_resources is in such a zone.
C1_UnmappedZonesDropped ==
    \A p \in Procs :
        pc[p] = "ready" =>
            LET cat == df[p][1]
                az == read_csv(az_mapping_file)
                MappedName(row, zone) ==
                    \E i \in DOMAIN raw_df, m \in DOMAIN az :
                        /\ ComesFrom(row, raw_df[i])
                        /\ az[m].AvailabilityZone = raw_df[i].AvailabilityZone
                        /\ az[m].AvailabilityZoneName = zone
            IN  /\ \A i \in DOMAIN raw_df :
                       raw_df[i].AvailabilityZone \notin MappedIds(az)
                           => RowsFrom(cat, raw_df[i]) = {}
                /\ \A j \in DOMAIN cat :
                       /\ MappedName(cat[j], cat[j].AvailabilityZone)
                       /\ cat[j].AvailabilityZone \in ZoneNames
                       /\ cat[j].AvailabilityZone \notin ZoneIds \cup {""}
                /\ (IsFeasibleCall /\ call.proc = p) =>
                       \A n \in DOMAIN call.ret :
                           /\ call.ret[n].zone \in ZoneNames
                           /\ \E j \in DOMAIN cat :
                                  /\ OfferOfRow(call.ret[n], cat[j])
                                  /\ MappedName(cat[j], call.ret[n].zone)

\* a query answered from a catalog that lost a row to an unmapped zone
C1_Witness ==
    /\ IsFeasibleCall
    /\ call.ret # <<>>
    /\ \E i \in DOMAIN raw_df :
           raw_df[i].AvailabilityZone \notin MappedIds(read_csv(az_mapping_file))

\* C2: the result of get_region_zones_for_instance_type is the regions of
\* region_list whose name starts with "us-", in their order in region_list,
\* followed by the other regions of region_list, in their order.
C2_StablePartition ==
    IsRegionCall =>
        LET IsUS(r) == /\ Len(r.name) >= 3
                       /\ r.name[1] = "u" /\ r.name[2] = "s" /\ r.name[3] = "-"
            l == call.region_list
            us == SelectSeq(l, IsUS)
            other == SelectSeq(l, LAMBDA r : ~IsUS(r))
        IN  /\ call.ret = us \o other
            /\ Len(call.ret) = Len(l)
            /\ \A i, j \in DOMAIN call.ret :
                   (i < j /\ IsUS(call.ret[j])) => IsUS(call.ret[i])

\* three regions, a non-US one priced between two US ones
C2_Witness ==
    /\ IsRegionCall
    /\ Len(call.region_list) = 3
    /\ call.region_list[1].name = us_west_2
    /\ call.region_list[2].name = eu_west_1
    /\ call.region_list[3].name = us_east_1
    /\ call.ret # call.region_list

\* C3 as stated: with every optional field unset there is one offer per
\* catalog row.
C3_OneOfferPerRow ==
    (IsFeasibleCall /\ AllUnset(call.resource_filter)) =>
        /\ Len(call.ret) = Len(Catalog)
        /\ \A i \in DOMAIN call.ret : OfferOfRow(call.ret[i], Catalog[i])

\* C3 (amended): with every optional field unset there is one offer per
\* catalog row that has a price for the purchasing option asked for: every
\* row when use_spot is false, every row with a spot price when it is true.
C3_OneOfferPerPricedRow ==
    (IsFeasibleCall /\ AllUnset(call.resource_filter)) =>
        LET rows == IF call.resource_filter.use_spot
                    THEN SelectSeq(Catalog, HasSpotPrice) ELSE Catalog
        IN  /\ Len(call.ret) = Len(rows)
            /\ \A i \in DOMAIN call.ret : OfferOfRow(call.ret[i], rows[i])

\* a spot query with no field set, on a catalog with and without spot prices
C3_Witness ==
    /\ IsFeasibleCall
    /\ AllUnset(call.resource_filter)
    /\ call.resource_filter.use_spot
    /\ call.ret # <<>>
    /\ \E j \in DOMAIN Catalog : ~HasSpotPrice(Catalog[j])
    /\ \E j \in DOMAIN Catalog : isna(Catalog[j].AcceleratorName)

\* C4: of the rows the filter otherwise matches, a spot query returns
\* offers for exactly those with a spot price, and an on-demand query for
\* all of them, those without a spot price included.
C4_SpotNeedsSpotPrice ==
    IsFeasibleCall =>
        LET f == call.resource_filter
            matching == SelectSeq(Catalog, LAMBDA row : Matches(row, f))
            spot == SelectSeq(matching, HasSpotPrice)
        IN  /\ f.use_spot =>
                /\ Len(call.ret) = Len(spot)
                /\ \A i \in DOMAIN call.ret : OfferOfRow(call.ret[i], spot[i])
            /\ ~f.use_spot =>
                /\ Len(call.ret) = Len(matching)
                /\ \A i \in DOMAIN call.ret : OfferOfRow(call.ret[i], matching[i])

\* a spot query whose filter matches a row with and a row without spot price
C4_Witness ==
    /\ IsFeasibleCall
    /\ call.resource_filter.use_spot
    /\ call.resource_filter.instance_type # None
    /\ call.ret # <<>>
    /\ \E j \in DOMAIN Catalog :
           Matches(Catalog[j], call.resource_filter) /\ ~HasSpotPrice(Catalog[j])

C6_Passthrough ==
    IsFeasibleCall =>
        LET f == call.resource_filter
            rows == Expected(Catalog, f)
        IN  /\ Len(call.ret) = Len(rows)
            /\ \A i \in DOMAIN call.ret :
                   /\ call.ret[i].use_spot = f.use_spot
                   /\ call.ret[i].spot_recovery = f.spot_recovery
                   /\ call.ret[i].disk_size = f.disk_size
                   /\ call.ret[i].image_id = f.image_id
                   /\ OfferOfRow(call.ret[i], rows[i])

\* an on-demand query with custom passthrough fields answered from a row
\* that has a spot price
C6_Witness ==
    /\ IsFeasibleCall
    /\ ~call.resource_filter.use_spot
    /\ call.resource_filter.image_id # None
    /\ call.resource_filter.disk_size # 256
    /\ \E i \in DOMAIN call.ret :
           HasSpotPrice(Expected(Catalog, call.resource_filter)[i])

\* C9: when the filter asks for an accelerator (name, n), every offer has
\* that name and exactly the count n, and there are no more offers than rows
\* with exactly that name and count.
C9_ExactCount ==
    (IsFeasibleCall /\ call.resource_filter.accelerator # None) =>
        LET want == call.resource_filter.accelerator[1]
            exact == SelectSeq(Catalog, LAMBDA row :
                         /\ row.AcceleratorName = Some(want.name)
                         /\ row.AcceleratorCount = Some(10 * want.count))
        IN  /\ Len(call.ret) <= Len(exact)
            /\ \A i \in DOMAIN call.ret :
                   /\ call.ret[i].accelerator # None
                   /\ call.ret[i].accelerator[1].name = want.name
                   /\ call.ret[i].accelerator[1].count = want.count

\* one accelerator asked for, found, while the catalog also has rows with
\* four of them
C9_Witness ==
    /\ IsFeasibleCall
    /\ call.resource_filter.accelerator # None
    /\ call.resource_filter.accelerator[1].count = 1
    /\ call.ret # <<>>
    /\ \E j \in DOMAIN Catalog : Catalog[j].AcceleratorCount = Some(40)

\* C10 as stated: whatever the mapping table, each raw row yields at most
\* one row of the normalised catalog, which has no more rows than the raw one.
C10_NeverMultiplies ==
    \A p \in Procs :
        pc[p] = "ready" =>
            /\ Len(df[p][1]) <= Len(raw_df)
            /\ \A i \in DOMAIN raw_df :
                   Cardinality(RowsFrom(df[p][1], raw_df[i])) <= 1

UniqueKeys(az_mappings) ==
    \A i, j \in DOMAIN az_mappings :
        az_mappings[i].AvailabilityZone = az_mappings[j].AvailabilityZone => i = j

\* C10 (amended): each raw row yields as many rows of the normalised catalog
\* as the mapping table has entries for its zone id; so when the table has at
\* most one entry per zone id, a raw row yields at most one row (exactly one
\* when its zone id is mapped) and the normalised catalog has no more rows
\* than the raw one.
C10_OneRowPerEntry ==
    \A p \in Procs :
        pc[p] = "ready" =>
            LET cat == df[p][1]
                az == read_csv(az_mapping_file)
            IN  /\ \A i \in DOMAIN raw_df :
                       Cardinality(RowsFrom(cat, raw_df[i])) =
                           Cardinality(EntriesFor(az, raw_df[i].AvailabilityZone))
                /\ UniqueKeys(az) =>
                       /\ Len(cat) <= Len(raw_df)
                       /\ \A i \in DOMAIN raw_df :
                              /\ Cardinality(RowsFrom(cat, raw_df[i])) <= 1
                              /\ raw_df[i].AvailabilityZone \in MappedIds(az)
                                     => Cardinality(RowsFrom(cat, raw_df[i])) = 1

\* a table with one entry per zone id, a mapped raw row and an unmapped one
C10_Witness ==
    /\ pc[1] = "ready"
    /\ UniqueKeys(read_csv(az_mapping_file))
    /\ Len(read_csv(az_mapping_file)) >= 2
    /\ Len(df[1][1]) >= 1
    /\ Len(df[1][1]) < Len(raw_df)

C8_FetchFailureIsFatal ==
    /\ \A p \in Procs :
           fetched[p] = "failed" =>
               /\ pc[p] = "failed"
               /\ df[p] = Some(raw_df)
               /\ call.proc # p
               /\ path_exists(az_mapping_file) =>
                      \E q \in Procs \ {p} : fetched[q] = "ok"
    /\ call # NoCall =>
           /\ pc[call.proc] = "ready"
           /\ fetched[call.proc] \in {"no", "ok"}

\* a startup failed in the fetch and the store is still empty
C8_Witness ==
    \E p \in Procs :
        /\ fetched[p] = "failed"
        /\ pc[p] = "failed"
        /\ ~path_exists(az_mapping_file)

====
